---- MODULE Spec2Model ----
(***************************************************************************)
(* A model of fedora-infra/contribution-stats: the two collectors          *)
(* (collect-data-from-db.py, collect-data-from-datagrepper.py) that fill   *)
(* the SQLite event store, and query-monthly-data.py, which reads the      *)
(* store and writes one CSV row per month.                                  *)
(*                                                                         *)
(* Conventions.  A Python value that may be None, or a dictionary key      *)
(* that may be missing, is a sequence of length 0 (absent) or 1 (present). *)
(* A string built from fields (an ISO timestamp, "ns/repo", "%Y-%m") is    *)
(* the sequence of its fields; SQLite's string comparison of zero-padded   *)
(* timestamps is the lexicographic comparison of those sequences.          *)
(***************************************************************************)
EXTENDS Integers, Sequences, FiniteSets, TLC

VARIABLES
  collector,      \* which collector script fills the store: "db" or "datagrepper"
  feed,           \* the upstream messages the collector can be handed
  db,             \* the SQLite event store: table name -> set of rows
  call,           \* the collector's last processed message (absent before the first)
  raised,         \* the exception the last processed message ended with
  phase,          \* "collect", then the phases of query-monthly-data.py's main
  caller,         \* who consumes for_each_month: "main" or a direct caller
  start,          \* for_each_month's argument
  today,          \* date.today()
  current_date,   \* for_each_month's loop variable
  all_months,     \* the months for_each_month has yielded, in order
  bar,            \* main's position in all_months
  report,         \* the CSV rows main has written (header aside)
  stat,           \* main's and the aggregators' locals for the last row written
  page,           \* get_all_pages: params["page"]
  total_pages,    \* get_all_pages: total_pages
  requests,       \* get_all_pages: the page numbers requested so far, in order
  yielded,        \* get_all_pages: the page numbers whose messages were yielded
  pages_pc        \* get_all_pages: "test", "yielded", "done" or "raised"

vars == <<collector, feed, db, call, raised, phase, caller, start, today, current_date, all_months, bar, report, stat, page, total_pages, requests, yielded, pages_pc>>

store_vars == <<collector, feed, db, call, raised>>

report_vars == <<phase, caller, start, today, current_date, all_months, bar, report, stat>>

pages_vars == <<page, total_pages, requests, yielded, pages_pc>>

None == <<>>

Some(v) == <<v>>

(***************************************************************************)
(* The year of main's start date, and the bounds of the model: the last    *)
(* year a date is drawn from, the number of upstream messages a store is   *)
(* collected from, the largest additions/deletions count of a file entry,  *)
(* and the largest total a response reports.                               *)
(***************************************************************************)
FirstYear == 2020

LastYear == 2021

MaxEvents == 6

MaxLines == 2

MaxPages == 6

(***************************************************************************)
(* The calendar of Python's datetime, as the scripts use it.               *)
(***************************************************************************)
IsLeap(y) == (y % 4 = 0 /\ y % 100 # 0) \/ y % 400 = 0

DaysInMonth(y, m) == IF m \in {1, 3, 5, 7, 8, 10, 12} THEN 31 ELSE IF m \in {4, 6, 9, 11} THEN 30 ELSE IF IsLeap(y) THEN 29 ELSE 28

Date(y, m, d) == [year |-> y, month |-> m, day |-> d]

DateTime(y, m, d, h) == [year |-> y, month |-> m, day |-> d, hour |-> h]

NextDay(d) == IF d.day < DaysInMonth(d.year, d.month) THEN Date(d.year, d.month, d.day + 1) ELSE IF d.month < 12 THEN Date(d.year, d.month + 1, 1) ELSE Date(d.year + 1, 1, 1)

RECURSIVE timedelta_add(_, _)
timedelta_add(d, days) == IF days = 0 THEN d ELSE timedelta_add(NextDay(d), days - 1)

replace_day1(d) == Date(d.year, d.month, 1)

date_le(a, b) == \/ a.year < b.year
                 \/ a.year = b.year /\ a.month < b.month
                 \/ a.year = b.year /\ a.month = b.month /\ a.day <= b.day

RECURSIVE DaysBeforeYear(_)
DaysBeforeYear(y) == IF y <= FirstYear THEN 0 ELSE DaysBeforeYear(y - 1) + (IF IsLeap(y - 1) THEN 366 ELSE 365)

RECURSIVE DaysBeforeMonth(_, _)
DaysBeforeMonth(y, m) == IF m <= 1 THEN 0 ELSE DaysBeforeMonth(y, m - 1) + DaysInMonth(y, m - 1)

toordinal(dt) == DaysBeforeYear(dt.year) + DaysBeforeMonth(dt.year, dt.month) + dt.day

\* (a - b).days for two datetimes: a timedelta's days field is the floor.
timedelta_days(a, b) == ((toordinal(a) * 24 + a.hour) - (toordinal(b) * 24 + b.hour)) \div 24

\* datetime.isoformat(): "YYYY-MM-DDTHH:00:00" as its zero-padded fields.
isoformat(dt) == <<dt.year, dt.month, dt.day, dt.hour>>

fromisoformat(s) == DateTime(s[1], s[2], s[3], s[4])

\* date.strftime("%Y-%m-%d") and date.strftime("%Y-%m").
strftime_Ymd(d) == <<d.year, d.month, d.day>>

strftime_Ym(d) == <<d.year, d.month>>

\* SQLite's comparison of two such strings: field by field, a proper prefix first.
StrLess(a, b) == \E i \in 1..Len(b) : (\A j \in 1..(i - 1) : j <= Len(a) /\ a[j] = b[j]) /\ (i > Len(a) \/ a[i] < b[i])

StrGreater(a, b) == StrLess(b, a)

StrGreaterEq(a, b) == ~StrLess(a, b)

(***************************************************************************)
(* The event store.                                                        *)
(***************************************************************************)
Tables == {"commits", "orphaned", "adopted", "retired"}

\* make_db: CREATE TABLE IF NOT EXISTS, for all four tables.
make_db == [t \in Tables |-> {}]

Row(msgid, msg_date, agent, package) == [msgid |-> msgid, timestamp |-> isoformat(msg_date), year |-> msg_date.year, month |-> msg_date.month, by |-> agent, package |-> package]

\* INSERT INTO table ... under PRIMARY KEY (msgid): the rows after the statement,
\* and the exception it raises.
sql_insert_or_replace(rows, row) == [rows |-> {r \in rows : r.msgid # row.msgid} \cup {row}, raised |-> "none"]

sql_insert(rows, row) == IF \E r \in rows : r.msgid = row.msgid THEN [rows |-> rows, raised |-> "IntegrityError"] ELSE [rows |-> rows \cup {row}, raised |-> "none"]

(***************************************************************************)
(* Upstream messages.  A message is                                        *)
(*   [id, topic, sent_at, timestamp, project, agent, commit]               *)
(* where sent_at is headers["sent-at"], project is                         *)
(* body["project"]["fullname"], agent is body["agent"] and commit is       *)
(* body["commit"] = [namespace, repo, agent, branch, dead], dead being     *)
(* stats["files"]["dead.package"] = [additions, deletions].                *)
(***************************************************************************)
Commit(ns, repo, agent, branch, dead) == [namespace |-> ns, repo |-> repo, agent |-> agent, branch |-> branch, dead |-> dead]

Message(id, topic, sent_at, timestamp, project, agent, commit) == [id |-> id, topic |-> topic, sent_at |-> sent_at, timestamp |-> timestamp, project |-> project, agent |-> agent, commit |-> commit]

\* insert_message's msg_date: absent when the lookup raises KeyError.
msg_date_of(variant, message) == IF message.sent_at # None THEN message.sent_at ELSE IF variant = "db" THEN Some(message.timestamp) ELSE None

\* insert_message's package.
package_of(variant, message) ==
  IF message.project # None THEN message.project
  ELSE IF message.commit = None THEN None
  ELSE LET c == message.commit[1]
       IN IF c.repo = None THEN None
          ELSE IF c.namespace # None THEN Some(<<c.namespace[1], c.repo[1]>>)
          ELSE IF variant = "db" THEN Some(<<c.repo[1]>>)
          ELSE None

\* insert_message's agent.
agent_of(message) ==
  IF message.agent # None THEN message.agent
  ELSE IF message.commit = None THEN None
  ELSE message.commit[1].agent

\* insert_message(table, db, message): the store afterwards and the exception
\* that leaves the function, "none" when it returns.
insert_message(variant, table, d, message) ==
  LET date == msg_date_of(variant, message)
      package == package_of(variant, message)
      agent == agent_of(message)
  IN IF date = None \/ package = None \/ agent = None
     THEN [db |-> d, raised |-> "KeyError"]
     ELSE LET res == sql_insert(d[table], Row(message.id, date[1], agent[1], package[1]))
          IN IF res.raised = "IntegrityError"
             THEN [db |-> d, raised |-> "none"]
             ELSE [db |-> [d EXCEPT ![table] = res.rows], raised |-> res.raised]

Mainline == {"main", "rawhide"}

is_retirement_additions_only(message) ==
  IF message.commit = None THEN FALSE
  ELSE LET c == message.commit[1]
       IN IF c.dead = None THEN FALSE
          ELSE IF c.dead[1].additions = 0 THEN FALSE
          ELSE IF c.branch \notin Mainline THEN FALSE
          ELSE TRUE

is_retirement(message) ==
  IF message.commit = None THEN FALSE
  ELSE LET c == message.commit[1]
       IN IF c.dead = None THEN FALSE
          ELSE IF c.dead[1].additions = 0 /\ c.dead[1].deletions # 0 THEN FALSE
          ELSE IF c.branch \notin Mainline THEN FALSE
          ELSE TRUE

(***************************************************************************)
(* The collectors' loops over upstream rows.                               *)
(***************************************************************************)
\* record_pagure_messages' loop body, reached through record_action(action):
\* the table is f"{action}ed".
record_pagure_message(variant, action, d, message) ==
  LET table == IF action = "orphan" THEN "orphaned" ELSE "adopted"
      res == insert_message(variant, table, d, message)
  IN [db |-> res.db, raised |-> res.raised, tables |-> {table}, retirement |-> FALSE]

\* record_commits' loop body: insert into commits, then into retired when the
\* commit is a retirement.  A KeyError leaves the loop at the first insert.
record_commit(variant, d, message) ==
  LET first == insert_message(variant, "commits", d, message)
      retirement == first.raised = "none" /\ is_retirement(message)
      second == IF retirement THEN insert_message(variant, "retired", first.db, message) ELSE first
  IN [db |-> second.db, raised |-> second.raised, tables |-> IF retirement THEN {"commits", "retired"} ELSE {"commits"}, retirement |-> retirement]

Called(res, message) == Some([tables |-> res.tables, message |-> message, retirement |-> res.retirement])

RecordAction(action) ==
  /\ phase = "collect"
  /\ \E message \in feed :
       /\ message.topic = action
       /\ LET res == record_pagure_message(collector, action, db, message)
          IN /\ db' = res.db
             /\ raised' = res.raised
             /\ call' = Called(res, message)
  /\ UNCHANGED <<collector, feed>>
  /\ UNCHANGED report_vars
  /\ UNCHANGED pages_vars

RecordCommits ==
  /\ phase = "collect"
  /\ \E message \in feed :
       /\ message.topic = "commit"
       /\ LET res == record_commit(collector, db, message)
          IN /\ db' = res.db
             /\ raised' = res.raised
             /\ call' = Called(res, message)
  /\ UNCHANGED <<collector, feed>>
  /\ UNCHANGED report_vars
  /\ UNCHANGED pages_vars

\* The store a finished collector run leaves behind for the messages of S.
RECURSIVE Collected(_, _)
Collected(variant, S) ==
  IF S = {} THEN make_db
  ELSE LET message == CHOOSE m \in S : TRUE
           d == Collected(variant, S \ {message})
       IN IF message.topic = "commit" THEN record_commit(variant, d, message).db
          ELSE record_pagure_message(variant, message.topic, d, message).db

(***************************************************************************)
(* query-monthly-data.py: the aggregators.  month is a date, the first day *)
(* of the bucket.                                                          *)
(***************************************************************************)
\* WHERE year = {month.year} AND month = {month.month}
month_filter(r, month) == r.year = month.year /\ r.month = month.month

InMonth(rows, month) == {r \in rows : month_filter(r, month)}

_get_months_left_no_minus(d, month) == Cardinality({<<r.year, r.month>> : r \in {c \in d["commits"] : StrGreater(c.timestamp, strftime_Ymd(month))}})

_get_months_left(d, month) == Cardinality({<<r.year, r.month>> : r \in {c \in d["commits"] : StrGreater(c.timestamp, strftime_Ymd(month))}}) - 1

orphaned(d, month) == Cardinality(InMonth(d["orphaned"], month))

orphaners(d, month) == Cardinality({r.by : r \in InMonth(d["orphaned"], month)})

adopted(d, month) == Cardinality(InMonth(d["adopted"], month))

adopters(d, month) == Cardinality({r.by : r \in InMonth(d["adopted"], month)})

\* SELECT DISTINCT(package), timestamp FROM adopted: distinct (package, timestamp) pairs.
adopted_rows(d, month) == {<<r.package, r.timestamp>> : r \in InMonth(d["adopted"], month)}

\* date(format('%i-%02i-01', year, month))
sql_month_date(year, month) == <<year, month, 1>>

\* The orphaned rows of the package whose bucket is at or before the month.
orphaned_before(d, package, month) == {o \in d["orphaned"] : o.package = package /\ ~StrLess(sql_month_date(month.year, month.month), sql_month_date(o.year, o.month))}

\* ORDER BY year DESC, month DESC and fetchone(): the timestamps the first row can
\* carry.  Rows of the same bucket come in an order SQLite does not promise.
first_orphaned(d, package, month) ==
  LET rows == orphaned_before(d, package, month)
  IN {o.timestamp : o \in {x \in rows : \A y \in rows : y.year < x.year \/ (y.year = x.year /\ y.month <= x.month)}}

OrphanedTimestamps(d) == {o.timestamp : o \in d["orphaned"]}

\* One resolution of every fetchone() of adoption(db, month).
adoption_fetches(d, month) ==
  LET qualifying == {row \in adopted_rows(d, month) : first_orphaned(d, row[1], month) # {}}
  IN {f \in [qualifying -> OrphanedTimestamps(d)] : \A row \in qualifying : f[row] \in first_orphaned(d, row[1], month)}

\* adoption_times, one entry per row of the outer query that found an orphaned row.
adoption_times(fetched) == {[package |-> row[1], timestamp |-> row[2], days |-> timedelta_days(fromisoformat(row[2]), fromisoformat(fetched[row]))] : row \in DOMAIN fetched}

RECURSIVE SumDays(_)
SumDays(samples) == IF samples = {} THEN 0 ELSE LET x == CHOOSE y \in samples : TRUE IN x.days + SumDays(samples \ {x})

\* statistics.mean(adoption_times) if adoption_times else None; the mean is the
\* exact fraction num/den.
statistics_mean(samples) == IF samples = {} THEN None ELSE Some([num |-> SumDays(samples), den |-> Cardinality(samples)])

retired_join_rows(d, month) == Cardinality({<<o, r>> \in d["orphaned"] \X d["retired"] : o.package = r.package /\ o.year = month.year /\ o.month = month.month})

retired(d, month) == Cardinality({o.package : o \in {x \in InMonth(d["orphaned"], month) : \E r \in d["retired"] : r.package = x.package}})

committed(d, month) == Cardinality({r.package : r \in InMonth(d["commits"], month)})

committers(d, month) == Cardinality({r.by : r \in InMonth(d["commits"], month)})

\* month + timedelta(days=31), then replace(day=1)
gone_next_month(month) == replace_day1(timedelta_add(month, 31))

_committers_this_month_on(d, month, names) == {r.by : r \in {c \in d["commits"] : c.by \in names /\ StrGreaterEq(c.timestamp, strftime_Ymd(month))}}

_committers_in_future_months(d, month, names) == {r.by : r \in {c \in d["commits"] : c.by \in names /\ StrGreaterEq(c.timestamp, strftime_Ymd(gone_next_month(month)))}}

orphaners_gone(d, month) ==
  IF _get_months_left(d, month) <= 3 THEN None
  ELSE LET orphaners_this_month == {r.by : r \in InMonth(d["orphaned"], month)}
       IN Some(Cardinality(orphaners_this_month \ _committers_in_future_months(d, month, orphaners_this_month)))

committers_gone(d, month) ==
  IF _get_months_left(d, month) <= 3 THEN None
  ELSE LET committers_this_month == {r.by : r \in InMonth(d["commits"], month)}
       IN Some(Cardinality(committers_this_month \ _committers_in_future_months(d, month, committers_this_month)))

(***************************************************************************)
(* query-monthly-data.py: the CSV row.  A field is what csv.writer puts    *)
(* between the commas: nothing, an integer's digits, or a number with two  *)
(* decimals (kept as its hundredths).                                      *)
(***************************************************************************)
CsvEmpty == [kind |-> "empty", n |-> 0]

CsvInt(n) == [kind |-> "int", n |-> n]

CsvFixed2(hundredths) == [kind |-> "fixed2", n |-> hundredths]

\* csv.writer writes None as the empty string and an int as str(int).
csv_field(x) == IF x = None THEN CsvEmpty ELSE CsvInt(x[1])

\* Round num/den to the nearest integer, ties to even, as float formatting does.
RoundHalfEven(num, den) ==
  LET q == num \div den
      r == num - q * den
  IN IF 2 * r < den THEN q ELSE IF 2 * r > den THEN q + 1 ELSE IF q % 2 = 0 THEN q ELSE q + 1

\* f"{avg_adoption_time:.02f}"
format_02f(avg) == CsvFixed2(RoundHalfEven(avg.num * 100, avg.den))

\* Python's truth value of avg_adoption_time: None and 0 are false.
truthy(avg) == avg # None /\ avg[1].num # 0

avg_field(avg) == IF truthy(avg) THEN format_02f(avg[1]) ELSE CsvEmpty

ReportRow(d, month, avg) ==
  [Date |-> strftime_Ym(month),
   Orphaned |-> CsvInt(orphaned(d, month)),
   Orphaners |-> CsvInt(orphaners(d, month)),
   Retired |-> CsvInt(retired(d, month)),
   Adoptions |-> CsvInt(adopted(d, month)),
   Adopters |-> CsvInt(adopters(d, month)),
   AvgAdoptionDays |-> avg_field(avg),
   PackagesWithCommits |-> CsvInt(committed(d, month)),
   Committers |-> CsvInt(committers(d, month)),
   OrphanersWhoLeft |-> csv_field(orphaners_gone(d, month)),
   CommittersWhoLeft |-> csv_field(committers_gone(d, month))]

(***************************************************************************)
(* query-monthly-data.py: for_each_month and main.                         *)
(***************************************************************************)
\* current_date + timedelta(days=32), then replace(day=1)
next_current_date_no_replace(d) == timedelta_add(d, 32)

next_current_date(d) == replace_day1(timedelta_add(d, 32))

\* One turn of for_each_month's loop: yield current_date and advance.
ForEachMonthYield ==
  /\ phase = "months"
  /\ date_le(current_date, replace_day1(today))
  /\ all_months' = Append(all_months, current_date)
  /\ current_date' = next_current_date(current_date)
  /\ UNCHANGED <<phase, caller, start, today, bar, report, stat>>
  /\ UNCHANGED store_vars
  /\ UNCHANGED pages_vars

\* The loop condition fails: the generator is exhausted and main has all_months.
ForEachMonthStop ==
  /\ phase = "months"
  /\ ~date_le(current_date, replace_day1(today))
  /\ phase' = IF caller = "main" THEN "rows" ELSE "done"
  /\ UNCHANGED <<caller, start, today, current_date, all_months, bar, report, stat>>
  /\ UNCHANGED store_vars
  /\ UNCHANGED pages_vars

\* One turn of main's loop over all_months: compute every statistic, write the row.
WriteRow ==
  /\ phase = "rows"
  /\ bar < Len(all_months)
  /\ LET month == all_months[bar + 1]
     IN \E fetched \in adoption_fetches(db, month) :
          LET samples == adoption_times(fetched)
              avg == statistics_mean(samples)
          IN /\ report' = Append(report, ReportRow(db, month, avg))
             /\ stat' = [month |-> Some(month), samples |-> samples, avg_adoption_time |-> avg, months_left |-> _get_months_left(db, month), orphaners_gone |-> orphaners_gone(db, month), committers_gone |-> committers_gone(db, month)]
  /\ bar' = bar + 1
  /\ UNCHANGED <<phase, caller, start, today, current_date, all_months>>
  /\ UNCHANGED store_vars
  /\ UNCHANGED pages_vars

MainDone ==
  /\ phase = "rows"
  /\ bar = Len(all_months)
  /\ phase' = "done"
  /\ UNCHANGED <<caller, start, today, current_date, all_months, bar, report, stat>>
  /\ UNCHANGED store_vars
  /\ UNCHANGED pages_vars

NextReport == ForEachMonthYield \/ ForEachMonthStop \/ WriteRow \/ MainDone

(***************************************************************************)
(* collect-data-from-datagrepper.py: get_all_pages.  requests records, per *)
(* request, the page asked for and the "pages" total of the response       *)
(* (absent when raise_for_status raised).                                  *)
(***************************************************************************)
loop_condition_strict(p, total) == p < total

\* while params["page"] <= total_pages
loop_condition(p, total) == p <= total

\* One request that succeeds: the response's total replaces total_pages and the
\* page's messages are yielded.
PageFetch ==
  /\ pages_pc = "test"
  /\ loop_condition(page, total_pages)
  /\ \E pages \in 0..MaxPages :
       /\ total_pages' = pages
       /\ requests' = Append(requests, [page |-> page, pages |-> Some(pages)])
  /\ yielded' = Append(yielded, page)
  /\ pages_pc' = "yielded"
  /\ UNCHANGED page
  /\ UNCHANGED store_vars
  /\ UNCHANGED report_vars

\* One request that fails: raise_for_status() raises and leaves the generator.
PageFetchFails ==
  /\ pages_pc = "test"
  /\ loop_condition(page, total_pages)
  /\ requests' = Append(requests, [page |-> page, pages |-> None])
  /\ pages_pc' = "raised"
  /\ UNCHANGED <<page, total_pages, yielded>>
  /\ UNCHANGED store_vars
  /\ UNCHANGED report_vars

\* The consumer asks for the next page: bar.update, params["page"] += 1.
PageResume ==
  /\ pages_pc = "yielded"
  /\ page' = page + 1
  /\ pages_pc' = "test"
  /\ UNCHANGED <<total_pages, requests, yielded>>
  /\ UNCHANGED store_vars
  /\ UNCHANGED report_vars

\* The loop condition fails: the generator returns.
PagesExhausted ==
  /\ pages_pc = "test"
  /\ ~loop_condition(page, total_pages)
  /\ pages_pc' = "done"
  /\ UNCHANGED <<page, total_pages, requests, yielded>>
  /\ UNCHANGED store_vars
  /\ UNCHANGED report_vars

NextPages == PageFetch \/ PageFetchFails \/ PageResume \/ PagesExhausted

(***************************************************************************)
(* Upstream messages the specifications start from.                        *)
(***************************************************************************)
Branches == {"main", "rawhide", "f39", "feature-x"}

MsgIds == {"2020-0a", "2020-0b"}

T1 == DateTime(FirstYear, 8, 10, 0)

T2 == DateTime(FirstYear, 8, 10, 12)

T3 == DateTime(FirstYear, 8, 20, 0)

T4 == DateTime(FirstYear, 9, 5, 0)

T5 == DateTime(FirstYear, 9, 20, 0)

DeadStats == {None} \cup {Some([additions |-> a, deletions |-> d]) : a \in 0..MaxLines, d \in 0..MaxLines}

PagureMessage(id, topic, dt, pkg, agent) == Message(id, topic, Some(dt), dt, Some(<<"rpms", pkg>>), Some(agent), None)

CommitMessage(id, dt, pkg, agent, branch, dead) == Message(id, "commit", Some(dt), dt, None, None, Some(Commit(Some("rpms"), Some(pkg), Some(agent), branch, dead)))

\* Messages of every shape insert_message and is_retirement tell apart, with
\* different field values under one id, and some that lack a field.
IngestMessages ==
  {PagureMessage(id, topic, T1, "foo", "alice") : id \in MsgIds, topic \in {"orphan", "adopt"}}
  \cup {PagureMessage(id, topic, T4, "bar", "bob") : id \in MsgIds, topic \in {"orphan", "adopt"}}
  \cup {Message(id, "orphan", None, T3, Some(<<"rpms", "foo">>), Some("alice"), None) : id \in MsgIds}
  \cup {Message(id, "orphan", Some(T1), T1, Some(<<"rpms", "foo">>), None, None) : id \in MsgIds}
  \cup {Message(id, "orphan", Some(T1), T1, None, Some("alice"), None) : id \in MsgIds}
  \cup {CommitMessage("2020-0a", T1, "foo", "alice", b, dead) : b \in Branches, dead \in DeadStats}
  \cup {CommitMessage(id, T4, "bar", "bob", "main", Some([additions |-> 1, deletions |-> 0])) : id \in MsgIds}
  \cup {Message(id, "commit", Some(T1), T1, None, Some("bob"), Some(Commit(None, Some("foo"), None, "main", None))) : id \in MsgIds}
  \cup {Message(id, "commit", Some(T1), T1, None, None, Some(Commit(Some("rpms"), Some("foo"), None, "main", None))) : id \in MsgIds}
  \cup {Message(id, "commit", Some(T1), T1, Some(<<"rpms", "foo">>), Some("bob"), None) : id \in MsgIds}

\* Orphanings, adoptions and retirements of two packages around a month boundary.
AdoptMessages ==
  {PagureMessage("o1", "orphan", T1, "foo", "alice"),
   PagureMessage("o2", "orphan", T3, "foo", "alice"),
   PagureMessage("o3", "orphan", T1, "bar", "bob"),
   PagureMessage("a1", "adopt", T1, "foo", "bob"),
   PagureMessage("a2", "adopt", T2, "foo", "bob"),
   PagureMessage("a3", "adopt", T4, "foo", "alice"),
   PagureMessage("a4", "adopt", T4, "bar", "alice"),
   PagureMessage("a5", "adopt", T5, "foo", "bob"),
   CommitMessage("c1", T3, "foo", "alice", "main", Some([additions |-> 1, deletions |-> 0])),
   CommitMessage("c2", T4, "foo", "bob", "rawhide", Some([additions |-> 1, deletions |-> 0])),
   CommitMessage("c3", T4, "bar", "bob", "f39", Some([additions |-> 1, deletions |-> 0]))}

\* The month of the report that lies k months after the first.
MonthAt(k) == Date(FirstYear + ((7 + k) \div 12), ((7 + k) % 12) + 1, 1)

\* Six months of commits by one committer, three by another, and three orphanings.
GoneMessages ==
  {CommitMessage(<<"bob", k>>, DateTime(MonthAt(k).year, MonthAt(k).month, 15, 0), "foo", "bob", "main", None) : k \in 0..5}
  \cup {CommitMessage(<<"alice", 0>>, DateTime(FirstYear, 8, 31, 12), "bar", "alice", "main", None),
        CommitMessage(<<"alice", 1>>, DateTime(FirstYear, 9, 1, 0), "bar", "alice", "main", None),
        CommitMessage(<<"alice", 2>>, DateTime(FirstYear, 10, 15, 0), "bar", "alice", "main", None)}
  \cup {PagureMessage(<<"orphan", 0>>, "orphan", T1, "foo", "alice"),
        PagureMessage(<<"orphan", 1>>, "orphan", DateTime(FirstYear, 10, 15, 0), "bar", "alice"),
        PagureMessage(<<"orphan", 2>>, "orphan", T3, "foo", "bob")}

BlankStat == [month |-> None, samples |-> {}, avg_adoption_time |-> None, months_left |-> 0, orphaners_gone |-> None, committers_gone |-> None]

\* main: start = date(2020, 8, 1)
MainStart == Date(FirstYear, 8, 1)

StartDates == {Date(y, m, d) : y \in FirstYear..LastYear, m \in 1..12, d \in {1, 15, 28}} \cup {Date(y, m, DaysInMonth(y, m)) : y \in FirstYear..LastYear, m \in 1..12}

TodayDates == {Date(y, m, 1) : y \in FirstYear..LastYear, m \in 1..12} \cup {Date(y, m, DaysInMonth(y, m)) : y \in FirstYear..LastYear, m \in 1..12}

(***************************************************************************)
(* Initial states and specifications.                                      *)
(***************************************************************************)
InitProcesses ==
  /\ call = None
  /\ raised = "none"
  /\ current_date = replace_day1(start)
  /\ all_months = <<>>
  /\ bar = 0
  /\ report = <<>>
  /\ stat = BlankStat
  /\ page = 1
  /\ total_pages = 1
  /\ requests = <<>>
  /\ yielded = <<>>
  /\ pages_pc = "test"

\* A collector starts on an empty store with two upstream messages to process.
InitIngest ==
  /\ collector \in {"db", "datagrepper"}
  /\ feed \in {{a, b} : a \in IngestMessages, b \in IngestMessages}
  /\ db = make_db
  /\ phase = "collect"
  /\ caller = "main"
  /\ start = MainStart
  /\ today = Date(FirstYear + 1, 1, 15)
  /\ InitProcesses

\* main starts on the store a collector left for some upstream messages.
InitReport(messages, now) ==
  /\ collector = "db"
  /\ feed \in {S \in SUBSET messages : Cardinality(S) <= MaxEvents}
  /\ db = Collected(collector, feed)
  /\ phase = "months"
  /\ caller = "main"
  /\ start = MainStart
  /\ today = now
  /\ InitProcesses

InitAdopt == InitReport(AdoptMessages, Date(FirstYear, 10, 15))

InitGone == InitReport(GoneMessages, Date(FirstYear + 1, 1, 15))

\* for_each_month on any start date and any current date, on an empty store.
InitMonths ==
  /\ collector = "db"
  /\ feed = {}
  /\ db = make_db
  /\ phase = "months"
  /\ caller \in {"main", "direct"}
  /\ start \in IF caller = "main" THEN {MainStart} ELSE StartDates
  /\ today \in TodayDates
  /\ InitProcesses

\* get_all_pages starts; nothing is collected yet.
InitPages ==
  /\ collector = "datagrepper"
  /\ feed = {}
  /\ db = make_db
  /\ phase = "collect"
  /\ caller = "main"
  /\ start = MainStart
  /\ today = Date(FirstYear + 1, 1, 15)
  /\ InitProcesses

NextIngest == RecordAction("orphan") \/ RecordAction("adopt") \/ RecordCommits

SpecIngest == InitIngest /\ [][NextIngest]_vars

SpecAdopt == InitAdopt /\ [][NextReport]_vars

SpecGone == InitGone /\ [][NextReport]_vars

\* for_each_month and main run without interruption: every enabled step is taken.
SpecMonths == InitMonths /\ [][NextReport]_vars /\ WF_vars(NextReport)

\* The consumer of get_all_pages keeps asking and every request is answered.
SpecPages == InitPages /\ [][NextPages]_vars /\ WF_vars(NextPages)

Init == InitIngest \/ InitAdopt \/ InitGone \/ InitMonths \/ InitPages

Next == NextIngest \/ NextReport \/ NextPages

Spec == Init /\ [][Next]_vars

(***************************************************************************)
(* Properties.                                                             *)
(***************************************************************************)
HasId(rows, id) == \E r \in rows : r.msgid = id

WellFormed(variant, message) == msg_date_of(variant, message) # None /\ package_of(variant, message) # None /\ agent_of(message) # None

\* C1: a step that hands insert_message a message whose id is already in the
\* table leaves that table exactly as it was (same rows, so the same count and the
\* first row's timestamp, year, month, by and package), never lets the
\* IntegrityError out, and raises nothing at all when the message carries the
\* fields insert_message reads.
C1_IdempotentInsert ==
  [][call' # None =>
       \A t \in call'[1].tables :
         HasId(db[t], call'[1].message.id) =>
           /\ db'[t] = db[t]
           /\ raised' # "IntegrityError"
           /\ (WellFormed(collector, call'[1].message) => raised' = "none")]_vars

\* C1 witness: the last message was inserted without error into a table that
\* holds its id in a row whose timestamp, by and package all differ from the
\* message's: the row is the first insert's, the message a second one.
C1_Witness ==
  /\ call # None
  /\ raised = "none"
  /\ WellFormed(collector, call[1].message)
  /\ \E t \in call[1].tables : \E r \in db[t] :
       /\ r.msgid = call[1].message.id
       /\ r.timestamp # isoformat(msg_date_of(collector, call[1].message)[1])
       /\ r.by # agent_of(call[1].message)[1]
       /\ r.package # package_of(collector, call[1].message)[1]

\* The last processed message was a commit on which is_retirement was evaluated.
Classified == call # None /\ call[1].message.topic = "commit" /\ raised = "none"

DeadOf(message) == IF message.commit = None THEN None ELSE message.commit[1].dead

\* C2 as stated: is_retirement is true iff dead.package is in the statistics
\* with a nonzero additions count and the branch is main or rawhide.
C2_AsStated ==
  Classified =>
    (call[1].retirement <=>
       /\ DeadOf(call[1].message) # None
       /\ DeadOf(call[1].message)[1].additions # 0
       /\ call[1].message.commit[1].branch \in {"main", "rawhide"})

\* C2 as amended: is_retirement is true iff dead.package is in the statistics,
\* its additions count is nonzero or its deletions count is zero, and the branch
\* is main or rawhide; an absent entry gives false without an exception.  A
\* commit classified as a retirement is in the retired table afterwards.
C2_Retirement ==
  Classified =>
    /\ call[1].retirement <=>
         /\ DeadOf(call[1].message) # None
         /\ (DeadOf(call[1].message)[1].additions # 0 \/ DeadOf(call[1].message)[1].deletions = 0)
         /\ call[1].message.commit[1].branch \in {"main", "rawhide"}
    /\ (call[1].retirement => HasId(db["retired"], call[1].message.id))

\* C2 witness: a commit on a mainline branch whose dead.package entry has no
\* additions and no deletions was classified as a retirement.
C2_Witness ==
  /\ Classified
  /\ call[1].retirement
  /\ DeadOf(call[1].message) = Some([additions |-> 0, deletions |-> 0])

\* A row's bucket is at or before, or after, the bucket of the month.
BucketAtOrBefore(r, month) == r.year < month.year \/ (r.year = month.year /\ r.month <= month.month)

BucketAfter(r, month) == r.year > month.year \/ (r.year = month.year /\ r.month > month.month)

\* The packages adopted in the month that have an orphaned event in a bucket at
\* or before it.
QualifyingPackages(d, month) == {r.package : r \in {a \in InMonth(d["adopted"], month) : \E o \in d["orphaned"] : o.package = a.package /\ BucketAtOrBefore(o, month)}}

\* C3: for the month of the last row written, the adoption mean is absent
\* exactly when no package adopted in the month has a qualifying orphaned event,
\* and otherwise it is the mean of day counts that are all nonnegative.
C3_AdoptionNonnegative ==
  stat.month # None =>
    /\ stat.avg_adoption_time = None <=> QualifyingPackages(db, stat.month[1]) = {}
    /\ stat.avg_adoption_time # None =>
         /\ \A s \in stat.samples : s.days >= 0
         /\ stat.avg_adoption_time[1].den = Cardinality(stat.samples)
         /\ stat.avg_adoption_time[1].num = SumDays(stat.samples)

\* Month numbers on one scale, to count calendar months between buckets.
MonthIndex(year, month) == year * 12 + month - 1

LastDataMonth(d) == CHOOSE i \in {MonthIndex(r.year, r.month) : r \in d["commits"]} : \A r \in d["commits"] : MonthIndex(r.year, r.month) <= i

\* The month is one of the last 3 calendar months of the commit data (or later).
InLastThreeMonths(d, month) == d["commits"] = {} \/ MonthIndex(month.year, month.month) > LastDataMonth(d) - 3

IsCount(x) == x # None /\ x[1] \in Nat

\* C4 as stated: both gone-counts are absent when the month is one of the last 3
\* calendar months of data and a nonnegative integer for every other month.
C4_AsStated ==
  stat.month # None =>
    /\ InLastThreeMonths(db, stat.month[1]) => stat.orphaners_gone = None /\ stat.committers_gone = None
    /\ ~InLastThreeMonths(db, stat.month[1]) => IsCount(stat.orphaners_gone) /\ IsCount(stat.committers_gone)

\* The distinct buckets, at or after the month's, that hold a commit event.
CommitMonthsFrom(d, month) == {<<r.year, r.month>> : r \in {c \in d["commits"] : ~BucketAfter(month, c)}}

\* C4 as amended: both gone-counts are absent exactly when at most 4 distinct
\* months holding commit events lie at or after the month (itself included), and
\* a nonnegative integer otherwise.
C4_Lookahead ==
  stat.month # None =>
    LET few == Cardinality(CommitMonthsFrom(db, stat.month[1])) <= 4
    IN /\ few => stat.orphaners_gone = None /\ stat.committers_gone = None
       /\ ~few => IsCount(stat.orphaners_gone) /\ IsCount(stat.committers_gone)

\* C4 witness: the month holds commits and exactly 3 later months do (it is the
\* 4th-from-last month of data), and both gone-counts are absent, after a first
\* row, of an earlier month, that carries both counts.
C4_Witness ==
  /\ stat.month # None
  /\ Len(report) >= 2
  /\ report[1].OrphanersWhoLeft.kind = "int"
  /\ report[1].CommittersWhoLeft.kind = "int"
  /\ InMonth(db["commits"], stat.month[1]) # {}
  /\ Cardinality(CommitMonthsFrom(db, stat.month[1])) = 4
  /\ ~InLastThreeMonths(db, stat.month[1])
  /\ stat.orphaners_gone = None
  /\ stat.committers_gone = None

\* The actors of the table's rows in the month who have no row, in the other
\* table, in any later bucket.
GoneFrom(d, table, future, month) == {r.by : r \in InMonth(d[table], month)} \ {f.by : f \in {x \in d[future] : BucketAfter(x, month)}}

\* C5 as stated: each gone-count, when present, counts the actors of its own
\* collection in the month who have no later event in that same collection.
C5_AsStated ==
  stat.month # None =>
    /\ stat.orphaners_gone # None => stat.orphaners_gone[1] = Cardinality(GoneFrom(db, "orphaned", "orphaned", stat.month[1]))
    /\ stat.committers_gone # None => stat.committers_gone[1] = Cardinality(GoneFrom(db, "commits", "commits", stat.month[1]))

\* C5 as amended: both gone-counts look ahead in commits: orphaners_gone counts
\* the actors with an orphaned event in the month who have no commits event at or
\* after the first day of the next month, committers_gone the actors with a commits
\* event in the month who have none at or after that day.
C5_Survivorship ==
  stat.month # None =>
    /\ stat.orphaners_gone # None => stat.orphaners_gone[1] = Cardinality(GoneFrom(db, "orphaned", "commits", stat.month[1]))
    /\ stat.committers_gone # None => stat.committers_gone[1] = Cardinality(GoneFrom(db, "commits", "commits", stat.month[1]))

\* C5 witness: a present orphaners_gone that differs from the count within the
\* orphaned collection, beside a present committers_gone that counts somebody.
C5_Witness ==
  /\ stat.month # None
  /\ stat.orphaners_gone # None
  /\ stat.orphaners_gone[1] # Cardinality(GoneFrom(db, "orphaned", "orphaned", stat.month[1]))
  /\ stat.committers_gone # None
  /\ stat.committers_gone[1] >= 1

\* C6: in the last row written, the adoption field is empty iff the mean is
\* absent, a present mean is written with two decimals, and a gone-count field is
\* empty iff the count is absent.
C6_EmptyIffAbsent ==
  report # <<>> =>
    LET row == report[Len(report)]
    IN /\ row.AvgAdoptionDays = CsvEmpty <=> stat.avg_adoption_time = None
       /\ stat.avg_adoption_time # None => row.AvgAdoptionDays.kind = "fixed2"
       /\ row.OrphanersWhoLeft = CsvEmpty <=> stat.orphaners_gone = None
       /\ row.CommittersWhoLeft = CsvEmpty <=> stat.committers_gone = None

\* C7: in every row written, the retired count is at most the orphaned count.
C7_RetiredAtMostOrphaned == \A i \in 1..Len(report) : report[i].Retired.n <= report[i].Orphaned.n

\* C7 witness: the last row's month has a package with two orphaned events in it
\* and two retired events, and the row counts it once as retired.
C7_Witness ==
  /\ report # <<>>
  /\ report[Len(report)].Retired.n = 1
  /\ \E o1 \in InMonth(db["orphaned"], stat.month[1]), o2 \in InMonth(db["orphaned"], stat.month[1]) :
       /\ o1 # o2
       /\ o1.package = o2.package
       /\ Cardinality({r \in db["retired"] : r.package = o1.package}) >= 2

\* C8: for the month of the last row written, every package adopted in the month
\* with a qualifying orphaned event contributes exactly one sample to the mean.
C8_OneSamplePerPackage ==
  stat.month # None =>
    \A p \in QualifyingPackages(db, stat.month[1]) : Cardinality({s \in stat.samples : s.package = p}) = 1

\* The first days of the calendar months from the first date's month through the
\* second date's month, in order.
MonthsThrough(first, last) ==
  LET from == MonthIndex(first.year, first.month)
      count == MonthIndex(last.year, last.month) - from + 1
  IN [k \in 1..(IF count > 0 THEN count ELSE 0) |-> Date((from + k - 1) \div 12, ((from + k - 1) % 12) + 1, 1)]

IsPrefix(s, t) == Len(s) <= Len(t) /\ \A i \in 1..Len(s) : s[i] = t[i]

C9_Months ==
  /\ IsPrefix(all_months, MonthsThrough(start, today))
  /\ phase \in {"rows", "done"} => all_months = MonthsThrough(start, today)
  /\ Len(report) = bar
  /\ bar <= Len(all_months)
  /\ \A i \in 1..Len(report) : report[i].Date = <<all_months[i].year, all_months[i].month>>
  /\ (phase = "done" /\ caller = "main") => Len(report) = Len(all_months)

\* What is left to do: the months still to yield, the rows still to write, and
\* the phases still to pass.
Remaining == (IF phase = "months" THEN 2 ELSE IF phase = "rows" THEN 1 ELSE 0) + (Len(MonthsThrough(start, today)) - Len(all_months)) + (Len(MonthsThrough(start, today)) - bar)

\* One of the guards of for_each_month's and main's steps holds.
CanStep ==
  \/ phase = "months" /\ (date_le(current_date, replace_day1(today)) \/ ~date_le(current_date, replace_day1(today)))
  \/ phase = "rows" /\ bar = Len(all_months)
  \/ phase = "rows" /\ bar < Len(all_months) /\ adoption_fetches(db, all_months[bar + 1]) # {}

\* C9: for_each_month yields the first day of every month from start's month
\* through the current month, once each and in order, whatever the start date and
\* the lengths of the months; main writes one row per yielded month in that
\* order; and both terminate: until the end is reached a step is always possible,
\* and every step brings the end nearer.
C9_EveryMonthOnce ==
  /\ C9_Months /\ Remaining >= 0 /\ CanStep
  /\ [][C9_Months' /\ Remaining' >= 0 /\ Remaining' < Remaining /\ (phase' = "done" \/ CanStep')]_vars

\* C9 witness: main has finished a report of at least 12 rows, one per month from
\* August through a February and a 30-day month to the current month.
C9_Witness ==
  /\ phase = "done"
  /\ caller = "main"
  /\ Len(report) >= 12
  /\ Len(report) = Len(all_months)
  /\ report[Len(report)].Date = <<today.year, today.month>>

Totals == {i \in 1..Len(requests) : requests[i].pages # None}

C10_Pages ==
  /\ \A i \in 1..Len(requests) : requests[i].page = i
  /\ \A i \in 2..Len(requests) : requests[i - 1].pages # None /\ i <= requests[i - 1].pages[1]
  /\ Totals # {} => \E i \in Totals : (\A j \in Totals : j <= i) /\ total_pages = requests[i].pages[1]
  /\ yielded = [i \in 1..Cardinality(Totals) |-> i]
  /\ pages_pc = "done" =>
       /\ page > total_pages
       /\ Len(requests) = page - 1
       /\ \A k \in 1..total_pages : \E i \in 1..Len(yielded) : yielded[i] = k

\* C10: get_all_pages requests pages 1, 2, 3, ... in order, each at most once,
\* each only while its number is at most the total of the most recent response,
\* and when it returns every page from 1 through the last reported total has been
\* requested and yielded; with totals of at most MaxPages it always ends.
C10_Pagination == []C10_Pages /\ <>(pages_pc \in {"done", "raised"})

\* C10 witness: the generator returned after at least 3 pages, the last response
\* having lowered the total it was given before.
C10_Witness ==
  /\ pages_pc = "done"
  /\ Len(yielded) >= 3
  /\ total_pages = Len(yielded)
  /\ \E i \in 1..Len(requests) : requests[i].pages # None /\ requests[i].pages[1] > total_pages

====
